---- MODULE Spec2Model ----
(***************************************************************************)
(* termslides (src/main.py): the Presentation object and its run loop.     *)
(*                                                                         *)
(* The Python object `self` is the record variable self, with the fields   *)
(* __init__ assigns that carry state (slides, title, current_slide,        *)
(* show_notes, help_mode).  The terminal owned by self.term is the record  *)
(* term: its fullscreen and cbreak modes are context managers entered and  *)
(* left by the `with` statement of run().                                  *)
(***************************************************************************)
EXTENDS Integers, Sequences, FiniteSets, TLC

VARIABLES
    self,     \* the Presentation object's fields
    term,     \* the terminal's modes: [fullscreen, cbreak]
    pc,       \* where run() is: "start", "display", "inkey", "returned", "raised"
    key,      \* the local `key` of run(): the last Keystroke inkey() returned
    exc,      \* the exception that left run(), "None" if none
    screen,   \* what the last display_current_slide() put on the terminal
    redraws,  \* display_current_slide() calls since the last inkey() returned
    file,         \* main(): what args.file names: "missing", "unreadable", "readable"
    exit_status,  \* the process's exit status, "None" while it runs
    errors,       \* error messages printed about the file
    text,         \* parse_markdown: the content read from the file
    doc,          \* parse_markdown: the title and slides it returned
    redoc,        \* the result of parsing one slide's content again
    ppc           \* the parser's progress: "idle", "read", "parsed", "reparsed"

runVars == <<self, term, pc, key, exc, screen, redraws>>

mainVars == <<file, exit_status, errors>>

parseVars == <<text, doc, redoc, ppc>>

vars == <<self, term, pc, key, exc, screen, redraws,
          file, exit_status, errors, text, doc, redoc, ppc>>

----------------------------------------------------------------------------
(* Bounds of the model *)

MaxSlides == 3

----------------------------------------------------------------------------
(* Slide (dataclass): content: str, notes: Optional[str] = None *)

None == "None"

Slide(content, notes) == [content |-> content, notes |-> notes]

\* The slides the inputs are drawn from: notes absent, notes the empty
\* string (a marker with nothing after it), notes present; empty content.
SlideValues ==
    { Slide("# A", None), Slide("B", ""), Slide("", "remember") }

SlideLists ==
    UNION { [1..n -> SlideValues] : n \in 1..MaxSlides }

----------------------------------------------------------------------------
(* Keystroke (blessed): a str with a .name; name is None for plain keys *)

Keystroke(name, str) == [name |-> name, str |-> str]

NoKey == Keystroke(None, "")

Keys ==
    { Keystroke("KEY_ESCAPE", "^["), Keystroke(None, "q"), Keystroke(None, "^C"),
      Keystroke("KEY_RIGHT", "^[[C"), Keystroke(None, " "), Keystroke(None, "n"),
      Keystroke("KEY_LEFT", "^[[D"), Keystroke(None, "p"),
      Keystroke(None, "f"), Keystroke(None, "l"),
      Keystroke(None, "s"), Keystroke(None, "h"),
      Keystroke(None, "x"), Keystroke(None, "N"), Keystroke("KEY_UP", "^[[A") }

----------------------------------------------------------------------------
(* Presentation: navigation and toggles *)

next_slide_unguarded(p) ==
    [p EXCEPT !.current_slide = @ + 1]

next_slide_stops_early(p) ==
    IF p.current_slide < Len(p.slides) - 2
    THEN [p EXCEPT !.current_slide = @ + 1]
    ELSE p

next_slide(p) ==
    IF p.current_slide < Len(p.slides) - 1
    THEN [p EXCEPT !.current_slide = @ + 1]
    ELSE p

prev_slide(p) ==
    IF p.current_slide > 0
    THEN [p EXCEPT !.current_slide = @ - 1]
    ELSE p

first_slide(p) == [p EXCEPT !.current_slide = 0]

last_slide(p) == [p EXCEPT !.current_slide = Len(p.slides) - 1]

toggle_notes_sets_true(p) == [p EXCEPT !.show_notes = TRUE]

toggle_notes(p) == [p EXCEPT !.show_notes = ~@]

toggle_help_resets_notes(p) == [p EXCEPT !.help_mode = ~@, !.show_notes = FALSE]

toggle_help(p) == [p EXCEPT !.help_mode = ~@]

is_last_slide(p) == p.current_slide = Len(p.slides) - 1

is_first_slide(p) == p.current_slide = 0

----------------------------------------------------------------------------
(* Presentation.display_current_slide: what is put on the terminal.  In    *)
(* help mode _display_help draws the static help text and returns; else    *)
(* the slide's content, its notes when show_notes and slide.notes are both *)
(* truthy, and the footer "Slide i / n".  Python's list index is 0-based,  *)
(* the sequence's is 1-based.                                              *)

Truthy(s) == s # None /\ s # ""

HelpScreen ==
    [help |-> TRUE, content |-> "", notes_shown |-> FALSE, notes |-> None,
     pos |-> 0, total |-> 0]

display_ignores_show_notes(p) ==
    IF p.help_mode
    THEN HelpScreen
    ELSE LET slide == p.slides[p.current_slide + 1]
             shown == Truthy(slide.notes)
         IN  [help |-> FALSE, content |-> slide.content,
              notes_shown |-> shown,
              notes |-> IF shown THEN slide.notes ELSE None,
              pos |-> p.current_slide + 1, total |-> Len(p.slides)]

display_current_slide(p) ==
    IF p.help_mode
    THEN HelpScreen
    ELSE LET slide == p.slides[p.current_slide + 1]
             shown == p.show_notes /\ Truthy(slide.notes)
         IN  [help |-> FALSE, content |-> slide.content,
              notes_shown |-> shown,
              notes |-> IF shown THEN slide.notes ELSE None,
              pos |-> p.current_slide + 1, total |-> Len(p.slides)]

----------------------------------------------------------------------------
(* The terminal's scoped modes: `with self.term.fullscreen(),              *)
(* self.term.cbreak():` enters both and leaves both when the block is      *)
(* left, by break or by an exception.                                      *)

with_enter(t) == [t EXCEPT !.fullscreen = TRUE, !.cbreak = TRUE]

with_exit_keeps_cbreak(t) == [t EXCEPT !.fullscreen = FALSE]

with_exit(t) == [t EXCEPT !.fullscreen = FALSE, !.cbreak = FALSE]

----------------------------------------------------------------------------
(* run(): the if/elif chain applied to one Keystroke.  The result is the   *)
(* object after the branch taken and whether the branch was a break.       *)

IsQuitKey(k) == k.name = "KEY_ESCAPE" \/ k.str = "q" \/ k.str = "^C"

Continue(p) == [obj |-> p, brk |-> FALSE]

Break(p) == [obj |-> p, brk |-> TRUE]

\* The branches of the chain that choose by the key alone (after the quit,
\* help and boundary branches).
dispatch_swaps_first_last(p, k) ==
    IF k.name = "KEY_RIGHT" \/ k.str = " " \/ k.str = "n" THEN next_slide(p)
    ELSE IF k.name = "KEY_LEFT" \/ k.str = "p" THEN prev_slide(p)
    ELSE IF k.str = "f" THEN last_slide(p)
    ELSE IF k.str = "l" THEN first_slide(p)
    ELSE IF k.str = "s" THEN toggle_notes(p)
    ELSE IF k.str = "h" THEN toggle_help(p)
    ELSE p

dispatch_other_keys_advance(p, k) ==
    IF k.name = "KEY_LEFT" \/ k.str = "p" THEN prev_slide(p)
    ELSE IF k.str = "f" THEN first_slide(p)
    ELSE IF k.str = "l" THEN last_slide(p)
    ELSE IF k.str = "s" THEN toggle_notes(p)
    ELSE IF k.str = "h" THEN toggle_help(p)
    ELSE next_slide(p)

dispatch(p, k) ==
    IF k.name = "KEY_RIGHT" \/ k.str = " " \/ k.str = "n" THEN next_slide(p)
    ELSE IF k.name = "KEY_LEFT" \/ k.str = "p" THEN prev_slide(p)
    ELSE IF k.str = "f" THEN first_slide(p)
    ELSE IF k.str = "l" THEN last_slide(p)
    ELSE IF k.str = "s" THEN toggle_notes(p)
    ELSE IF k.str = "h" THEN toggle_help(p)
    ELSE p

process_key_help_first(p, k) ==
    IF p.help_mode THEN Continue([p EXCEPT !.help_mode = FALSE])
    ELSE IF IsQuitKey(k) THEN Break(p)
    ELSE IF is_last_slide(p) /\ k.str = "n" THEN Break(p)
    ELSE IF is_first_slide(p) /\ k.str = "p" THEN Break(p)
    ELSE Continue(dispatch(p, k))

process_key_help_falls_through(p, k) ==
    IF IsQuitKey(k) THEN Break(p)
    ELSE LET q == [p EXCEPT !.help_mode = FALSE]
         IN  IF is_last_slide(q) /\ k.str = "n" THEN Break(q)
             ELSE IF is_first_slide(q) /\ k.str = "p" THEN Break(q)
             ELSE Continue(dispatch(q, k))

process_key(p, k) ==
    IF IsQuitKey(k) THEN Break(p)
    ELSE IF p.help_mode THEN Continue([p EXCEPT !.help_mode = FALSE])
    ELSE IF is_last_slide(p) /\ k.str = "n" THEN Break(p)
    ELSE IF is_first_slide(p) /\ k.str = "p" THEN Break(p)
    ELSE Continue(dispatch(p, k))

----------------------------------------------------------------------------
(* The state machine *)

\* Presentation.__init__ on a slide list parse_markdown can build (re.split
\* returns at least one section, so the list is never empty).
Init ==
    /\ self \in { [slides |-> sl, title |-> "Presentation", current_slide |-> 0,
                   show_notes |-> FALSE, help_mode |-> FALSE] : sl \in SlideLists }
    /\ term = [fullscreen |-> FALSE, cbreak |-> FALSE]
    /\ pc = "start"
    /\ key = NoKey
    /\ exc = None
    /\ screen = [help |-> FALSE, content |-> "", notes_shown |-> FALSE,
                 notes |-> None, pos |-> 0, total |-> 0]
    /\ redraws = 0
    /\ file = "readable"
    /\ exit_status = None
    /\ errors = 0
    /\ text = <<>>
    /\ doc = [title |-> <<>>, slides |-> <<>>]
    /\ redoc = [title |-> <<>>, slides |-> <<>>]
    /\ ppc = "idle"

\* run() is called: the with statement enters fullscreen and cbreak.
RunEnter ==
    /\ pc = "start"
    /\ term' = with_enter(term)
    /\ pc' = "display"
    /\ UNCHANGED <<self, key, exc, screen, redraws, mainVars, parseVars>>

\* The loop's first statement: self.display_current_slide().
Display ==
    /\ pc = "display"
    /\ screen' = display_current_slide(self)
    /\ redraws' = redraws + 1
    /\ pc' = "inkey"
    /\ UNCHANGED <<self, term, key, exc, mainVars, parseVars>>

KeyEventSkipsRedraw ==
    /\ pc = "inkey"
    /\ \E k \in Keys :
          LET r == process_key(self, k)
          IN  /\ key' = k
              /\ self' = r.obj
              /\ pc' = IF r.brk THEN "returned" ELSE "inkey"
              /\ term' = IF r.brk THEN with_exit(term) ELSE term
    /\ redraws' = 0
    /\ UNCHANGED <<exc, screen, mainVars, parseVars>>

\* inkey(timeout=None) returns a Keystroke and the if/elif chain handles it;
\* a break leaves the with block, which restores the terminal.
KeyEvent ==
    /\ pc = "inkey"
    /\ \E k \in Keys :
          LET r == process_key(self, k)
          IN  /\ key' = k
              /\ self' = r.obj
              /\ pc' = IF r.brk THEN "returned" ELSE "display"
              /\ term' = IF r.brk THEN with_exit(term) ELSE term
    /\ redraws' = 0
    /\ UNCHANGED <<exc, screen, mainVars, parseVars>>

\* A KeyboardInterrupt (SIGINT: in cbreak mode Ctrl+C is delivered as the
\* signal) is raised inside the loop, while drawing or while blocked in
\* inkey(); it propagates out of the with block, which restores the terminal.
Interrupt ==
    /\ pc \in {"display", "inkey"}
    /\ exc' = "KeyboardInterrupt"
    /\ term' = with_exit(term)
    /\ pc' = "raised"
    /\ UNCHANGED <<self, key, screen, redraws, mainVars, parseVars>>

Next == RunEnter \/ Display \/ KeyEvent \/ Interrupt

Spec == Init /\ [][Next]_vars

----------------------------------------------------------------------------
(* main(): the process from its start.  args.file names a file that is      *)
(* missing, one that exists but whose open() or read() raises (no          *)
(* permission, a directory, undecodable bytes, removed after the check),   *)
(* or one that is read.                                                     *)

Files == {"missing", "unreadable", "readable"}

\* No Presentation has been constructed yet.
NoPresentation ==
    [slides |-> <<>>, title |-> "", current_slide |-> 0,
     show_notes |-> FALSE, help_mode |-> FALSE]

InitMain ==
    /\ file \in Files
    /\ self = NoPresentation
    /\ term = [fullscreen |-> FALSE, cbreak |-> FALSE]
    /\ pc = "main"
    /\ key = NoKey
    /\ exc = None
    /\ screen = [help |-> FALSE, content |-> "", notes_shown |-> FALSE,
                 notes |-> None, pos |-> 0, total |-> 0]
    /\ redraws = 0
    /\ exit_status = None
    /\ errors = 0
    /\ text = <<>>
    /\ doc = [title |-> <<>>, slides |-> <<>>]
    /\ redoc = [title |-> <<>>, slides |-> <<>>]
    /\ ppc = "idle"

\* if not os.path.exists(args.file): print the error, sys.exit(1).
MainCheckExists ==
    /\ pc = "main"
    /\ IF file = "missing"
       THEN /\ errors' = errors + 1
            /\ exit_status' = 1
            /\ pc' = "exited"
       ELSE /\ pc' = "parse"
            /\ UNCHANGED <<errors, exit_status>>
    /\ UNCHANGED <<self, term, key, exc, screen, redraws, file, parseVars>>

MainParseReadErrorNotFatal ==
    /\ pc = "parse"
    /\ errors' = IF file = "unreadable" THEN errors + 1 ELSE errors
    /\ \E sl \in SlideLists :
          self' = [slides |-> sl, title |-> "Presentation", current_slide |-> 0,
                   show_notes |-> FALSE, help_mode |-> FALSE]
    /\ pc' = "start"
    /\ UNCHANGED <<exit_status, term, key, exc, screen, redraws, file, parseVars>>

\* presentation = parse_markdown(args.file): the read in try/except (print
\* the error, sys.exit(1)); on success the Presentation is constructed on
\* the slide list parsed, one of the lists parse_markdown can return.
MainParse ==
    /\ pc = "parse"
    /\ IF file = "unreadable"
       THEN /\ errors' = errors + 1
            /\ exit_status' = 1
            /\ pc' = "exited"
            /\ self' = self
       ELSE /\ \E sl \in SlideLists :
                  self' = [slides |-> sl, title |-> "Presentation",
                           current_slide |-> 0,
                           show_notes |-> FALSE, help_mode |-> FALSE]
            /\ pc' = "start"
            /\ UNCHANGED <<errors, exit_status>>
    /\ UNCHANGED <<term, key, exc, screen, redraws, file, parseVars>>

\* presentation.run() returned: main() returns and the process exits 0.
MainReturn ==
    /\ pc = "returned"
    /\ exit_status' = 0
    /\ pc' = "exited"
    /\ UNCHANGED <<self, term, key, exc, screen, redraws, file, errors, parseVars>>

\* The exception left run() and main() uncaught: the interpreter prints the
\* traceback and the process ends with status 1, or by SIGINT (130).
MainRaise ==
    /\ pc = "raised"
    /\ exit_status' \in {1, 130}
    /\ pc' = "exited"
    /\ UNCHANGED <<self, term, key, exc, screen, redraws, file, errors, parseVars>>

NextMain ==
    \/ MainCheckExists \/ MainParse \/ RunEnter \/ Display \/ KeyEvent
    \/ Interrupt \/ MainReturn \/ MainRaise

SpecMain == InitMain /\ [][NextMain]_vars

----------------------------------------------------------------------------
(* parse_markdown: the text after the file is read.  A Python str is a      *)
(* sequence of one-character strings here; the regular expressions are     *)
(* computed as re computes them (leftmost match, greedy \s*, lazy .*?,     *)
(* non-overlapping matches for split and sub).  None, for Optional[str],   *)
(* is a one-element sequence no str equals.                                *)

MaxLines == 4

NoneStr == <<"None">>

DefaultTitle == <<"P", "r", "e", "s", "e", "n", "t", "a", "t", "i", "o", "n">>

\* Whitespace (\s, str.strip) among the characters of the texts.
WS == {" ", "\n"}

Min(S) == CHOOSE x \in S : \A y \in S : x <= y

Max(S) == CHOOSE x \in S : \A y \in S : x >= y

\* The lines the texts are made of.
Lines ==
    { <<>>,
      <<"a">>,
      <<"-", "-", "-">>,
      <<" ", "-", "-", "-", " ">>,
      <<"-", "-", "-", "-">>,
      <<"#", " ", "T", " ">>,
      <<"#">>,
      <<"?", ">", "n">>,
      <<"a", " ", "?", ">">>,
      <<"-", "-", "-", "?", ">", "a">> }

RECURSIVE JoinLines(_)
JoinLines(ls) ==
    IF Len(ls) = 1 THEN ls[1]
    ELSE ls[1] \o <<"\n">> \o JoinLines(Tail(ls))

Texts ==
    { JoinLines(ls) : ls \in UNION { [1..n -> Lines] : n \in 1..MaxLines } }

\* The first index >= i that is past s or holds no whitespace: where a
\* greedy \s* started at i stops.
WsRunEnd(s, i) ==
    Min({ j \in i..Len(s) : s[j] \notin WS } \cup {Len(s) + 1})

strip_leading_only(s) ==
    LET nonws == { j \in 1..Len(s) : s[j] \notin WS }
    IN  IF nonws = {} THEN <<>> ELSE SubSeq(s, Min(nonws), Len(s))

\* str.strip()
strip(s) ==
    LET nonws == { j \in 1..Len(s) : s[j] \notin WS }
    IN  IF nonws = {} THEN <<>> ELSE SubSeq(s, Min(nonws), Max(nonws))

\* r'\n\s*---\s*\n' matched at i: the index of the match's last character,
\* 0 if there is no match at i.  The first \s* must take the whole
\* whitespace run (a hyphen is no whitespace); the second gives back to the
\* last line break of its run.
separator_end(s, i) ==
    IF s[i] # "\n" THEN 0
    ELSE LET d == WsRunEnd(s, i + 1)
         IN  IF ~(d + 2 <= Len(s) /\ \A j \in d..(d + 2) : s[j] = "-") THEN 0
             ELSE LET e == WsRunEnd(s, d + 3)
                      nl == { j \in (d + 3)..(e - 1) : s[j] = "\n" }
                  IN  IF nl = {} THEN 0 ELSE Max(nl)

\* re.split(slide_separator, content), from index `from` on.
RECURSIVE re_split(_, _)
re_split(s, from) ==
    LET starts == { i \in from..Len(s) : separator_end(s, i) # 0 }
    IN  IF starts = {} THEN << SubSeq(s, from, Len(s)) >>
        ELSE LET i == Min(starts)
             IN  << SubSeq(s, from, i - 1) >> \o re_split(s, separator_end(s, i) + 1)

\* r'^#\s+(.+)$' (MULTILINE) matched at the '#' at i: the index where
\* group 1 starts, 0 if there is no match at i.  The greedy \s+ gives back
\* until a character that is no line break follows it.
title_group_start(s, i) ==
    IF ~(s[i] = "#" /\ (i = 1 \/ s[i - 1] = "\n")) THEN 0
    ELSE LET e == WsRunEnd(s, i + 1)
             gs == { g \in (i + 2)..e : g <= Len(s) /\ s[g] # "\n" }
         IN  IF gs = {} THEN 0 ELSE Max(gs)

\* The last index of the line that holds index g.
line_end(s, g) ==
    Min({ j \in g..Len(s) : s[j] = "\n" } \cup {Len(s) + 1}) - 1

\* title_match.group(1) if title_match else "Presentation"
extract_title(s) ==
    LET starts == { i \in 1..Len(s) : title_group_start(s, i) # 0 }
    IN  IF starts = {} THEN DefaultTitle
        ELSE LET g == title_group_start(s, Min(starts))
             IN  SubSeq(s, g, line_end(s, g))

\* The indices >= from where the marker '?>' starts.
markers(s, from) ==
    { i \in from..(Len(s) - 1) : s[i] = "?" /\ s[i + 1] = ">" }

\* notes_pattern matched at the marker at i: where group 1 starts (after
\* the greedy \s*) and the index after the match (the first blank line or
\* the end of the string, for the lazy .*? under DOTALL).
notes_group_start(s, i) == WsRunEnd(s, i + 2)

notes_match_end(s, i) ==
    LET p == notes_group_start(s, i)
    IN  Min({ j \in p..(Len(s) - 1) : s[j] = "\n" /\ s[j + 1] = "\n" }
            \cup {Len(s) + 1})

re_sub_notes_first_only(s, from) ==
    IF markers(s, from) = {} THEN SubSeq(s, from, Len(s))
    ELSE LET i == Min(markers(s, from))
         IN  SubSeq(s, from, i - 1) \o SubSeq(s, notes_match_end(s, i), Len(s))

\* re.sub(notes_pattern, '', slide_content, flags=re.DOTALL), from `from` on.
RECURSIVE re_sub_notes(_, _)
re_sub_notes(s, from) ==
    IF markers(s, from) = {} THEN SubSeq(s, from, Len(s))
    ELSE LET i == Min(markers(s, from))
         IN  SubSeq(s, from, i - 1) \o re_sub_notes(s, notes_match_end(s, i))

\* The body of the for loop: one Slide from one section.
parse_section(sec) ==
    IF markers(sec, 1) = {}
    THEN Slide(strip(sec), NoneStr)
    ELSE LET i == Min(markers(sec, 1))
             notes == strip(SubSeq(sec, notes_group_start(sec, i),
                                   notes_match_end(sec, i) - 1))
         IN  Slide(strip(re_sub_notes(sec, 1)), notes)

parse_markdown_drops_empty(content) ==
    LET slide_contents == re_split(content, 1)
        all == [ n \in 1..Len(slide_contents) |-> parse_section(slide_contents[n]) ]
        NonEmpty(sl) == sl.content # <<>>
    IN  [title |-> extract_title(slide_contents[1]),
         slides |-> SelectSeq(all, NonEmpty)]

\* parse_markdown after the read: the title and the slides handed to
\* Presentation(slides, title).
parse_markdown(content) ==
    LET slide_contents == re_split(content, 1)
    IN  [title |-> extract_title(slide_contents[1]),
         slides |-> [ n \in 1..Len(slide_contents) |->
                        parse_section(slide_contents[n]) ]]

NoDoc == [title |-> <<>>, slides |-> <<>>]

InitParse ==
    /\ text \in Texts
    /\ ppc = "read"
    /\ doc = NoDoc
    /\ redoc = NoDoc
    /\ file = "readable"
    /\ self = NoPresentation
    /\ term = [fullscreen |-> FALSE, cbreak |-> FALSE]
    /\ pc = "parse"
    /\ key = NoKey
    /\ exc = None
    /\ screen = [help |-> FALSE, content |-> "", notes_shown |-> FALSE,
                 notes |-> None, pos |-> 0, total |-> 0]
    /\ redraws = 0
    /\ exit_status = None
    /\ errors = 0

\* Lines 198-221 on the content read.
ParseMarkdown ==
    /\ ppc = "read"
    /\ doc' = parse_markdown(text)
    /\ ppc' = "parsed"
    /\ UNCHANGED <<text, redoc, runVars, mainVars>>

\* One slide's content is parsed again as a document.
Reparse ==
    /\ ppc = "parsed"
    /\ \E n \in 1..Len(doc.slides) :
          /\ text' = doc.slides[n].content
          /\ redoc' = parse_markdown(doc.slides[n].content)
    /\ ppc' = "reparsed"
    /\ UNCHANGED <<doc, runVars, mainVars>>

NextParse == ParseMarkdown \/ Reparse

SpecParse == InitParse /\ [][NextParse]_vars

----------------------------------------------------------------------------
(* Vocabulary of the properties below *)

\* A step in which inkey() returned a Keystroke (key' is the one it returned)
\* and the if/elif chain ran on it; the other step from "inkey" is the
\* interrupt, which sets exc.
KeyStep == pc = "inkey" /\ exc' = None

IsNextKey(k) == k.name = "KEY_RIGHT" \/ k.str = " " \/ k.str = "n"

IsPrevKey(k) == k.name = "KEY_LEFT" \/ k.str = "p"

LoopEnded == pc \in {"returned", "raised"}

----------------------------------------------------------------------------
\* C1: in every reachable state, 0 <= current_slide <= len(slides) - 1,
\* over a slide list of length >= 1.
C1_IndexInRange ==
    /\ Len(self.slides) >= 1
    /\ 0 <= self.current_slide
    /\ self.current_slide <= Len(self.slides) - 1

\* A forward arrow was handled on the last slide of a list of several slides
\* (help not shown before it) and the loop went on.
C1_Witness ==
    /\ pc = "display"
    /\ key.name = "KEY_RIGHT"
    /\ ~screen.help
    /\ screen.pos = Len(self.slides)
    /\ Len(self.slides) >= 2
    /\ self.current_slide = Len(self.slides) - 1

\* C2: a quit key ('q', Escape, Ctrl+C as the character) read by inkey(), or
\* the interrupt raised in it, ends the run loop from every state, the help
\* overlay included.
C2_QuitAlwaysTerminates ==
    [][ (pc = "inkey" /\ (IsQuitKey(key') \/ exc' # None)) => LoopEnded' ]_vars

\* Escape ended the loop while the help overlay was shown, away from the
\* first slide and with the notes on.
C2_Witness ==
    /\ pc = "returned"
    /\ key.name = "KEY_ESCAPE"
    /\ self.help_mode
    /\ screen.help
    /\ self.show_notes
    /\ self.current_slide > 0

\* C3: while help_mode is true, a key other than a quit key sets help_mode
\* to false, leaves current_slide and show_notes as they were, and the loop
\* goes on.
C3_HelpDismissedOnly ==
    [][ (KeyStep /\ self.help_mode /\ ~IsQuitKey(key'))
        => /\ ~self'.help_mode
           /\ self'.current_slide = self.current_slide
           /\ self'.show_notes = self.show_notes
           /\ self'.slides = self.slides
           /\ pc' = "display" ]_vars

\* 'n' was read on the last slide while the help overlay was shown: help is
\* gone, the loop goes on, the slide and the notes flag are as they were.
C3_Witness ==
    /\ pc = "display"
    /\ key.str = "n"
    /\ screen.help
    /\ ~self.help_mode
    /\ is_last_slide(self)
    /\ self.show_notes

\* C4: with help not shown and on the last slide, each next-slide key
\* (forward arrow, space, 'n') ends the run loop, the index unchanged.
C4_NextKeyOnLastSlideExits ==
    [][ (KeyStep /\ ~self.help_mode /\ is_last_slide(self) /\ IsNextKey(key'))
        => (pc' = "returned" /\ self'.current_slide = self.current_slide) ]_vars

\* C5: with help not shown and on the first slide, each previous-slide key
\* (back arrow, 'p') ends the run loop.
C5_PrevKeyOnFirstSlideExits ==
    [][ (KeyStep /\ ~self.help_mode /\ is_first_slide(self) /\ IsPrevKey(key'))
        => pc' = "returned" ]_vars

\* C6: with help not shown and no quit or boundary-exit rule applying, a key
\* applies exactly its operation: next keys add 1 (not on the last slide),
\* previous keys subtract 1 (not on the first), 'f' sets 0, 'l' sets
\* len(slides)-1, 's' flips show_notes, 'h' sets help_mode to true; the loop
\* goes on.
C6_KeyAppliesMappedOperation ==
    [][ (/\ KeyStep
         /\ ~self.help_mode
         /\ ~IsQuitKey(key')
         /\ ~(is_last_slide(self) /\ IsNextKey(key'))
         /\ ~(is_first_slide(self) /\ IsPrevKey(key')))
        => /\ pc' = "display"
           /\ IsNextKey(key') =>
                self' = [self EXCEPT !.current_slide = self.current_slide + 1]
           /\ IsPrevKey(key') =>
                self' = [self EXCEPT !.current_slide = self.current_slide - 1]
           /\ key'.str = "f" => self' = [self EXCEPT !.current_slide = 0]
           /\ key'.str = "l" =>
                self' = [self EXCEPT !.current_slide = Len(self.slides) - 1]
           /\ key'.str = "s" =>
                self' = [self EXCEPT !.show_notes = ~self.show_notes]
           /\ key'.str = "h" => self' = [self EXCEPT !.help_mode = TRUE] ]_vars

\* 'l' was handled with help not shown, from a slide that was not the last.
C6_Witness ==
    /\ pc = "display"
    /\ key.str = "l"
    /\ ~screen.help
    /\ screen.pos < Len(self.slides)
    /\ self.current_slide = Len(self.slides) - 1

\* C7: with help not shown, a key that is none of the quit, next, previous,
\* 'f', 'l', 's', 'h' keys changes nothing of the object, raises nothing, and
\* the loop goes on.
C7_UnrecognizedKeyIgnored ==
    [][ (/\ KeyStep
         /\ ~self.help_mode
         /\ ~IsQuitKey(key') /\ ~IsNextKey(key') /\ ~IsPrevKey(key')
         /\ key'.str \notin {"f", "l", "s", "h"})
        => (self' = self /\ pc' = "display" /\ exc' = None) ]_vars

\* An unmapped key ('x') was handled with help not shown, on a later slide
\* with the notes on.
C7_Witness ==
    /\ pc = "display"
    /\ key.str = "x"
    /\ ~screen.help
    /\ self.show_notes
    /\ self.current_slide > 0

\* C8: the navigation methods never change show_notes or help_mode,
\* toggle_notes never changes current_slide or help_mode, toggle_help never
\* changes current_slide or show_notes, from any reachable object state; and
\* no step changes the slide list (or the title).
C8_Independence ==
    [][ /\ \A nav \in { next_slide(self), prev_slide(self),
                        first_slide(self), last_slide(self) } :
              /\ nav.show_notes = self.show_notes
              /\ nav.help_mode = self.help_mode
              /\ nav.slides = self.slides
        /\ toggle_notes(self).current_slide = self.current_slide
        /\ toggle_notes(self).help_mode = self.help_mode
        /\ toggle_notes(self).slides = self.slides
        /\ toggle_help(self).current_slide = self.current_slide
        /\ toggle_help(self).show_notes = self.show_notes
        /\ toggle_help(self).slides = self.slides
        /\ self'.slides = self.slides
        /\ self'.title = self.title ]_vars

\* 'h' was handled with help not shown and put the overlay up, with the
\* notes on and a later slide current: both toggles and the navigation have
\* acted.
C8_Witness ==
    /\ pc = "display"
    /\ key.str = "h"
    /\ ~screen.help
    /\ self.help_mode
    /\ self.show_notes
    /\ self.current_slide > 0

\* C9: whenever run() is blocked in inkey(), exactly one redraw has been made
\* since run() started or since the last key was handled, and what it drew is
\* the state the key will be applied to (help flag, current slide, notes).
C9_OneRedrawBeforeEachKey ==
    pc = "inkey" =>
        /\ redraws = 1
        /\ screen.help = self.help_mode
        /\ ~self.help_mode =>
             LET slide == self.slides[self.current_slide + 1]
             IN  /\ screen.pos = self.current_slide + 1
                 /\ screen.total = Len(self.slides)
                 /\ screen.content = slide.content
                 /\ screen.notes_shown = (self.show_notes /\ Truthy(slide.notes))
                 /\ screen.notes_shown => screen.notes = slide.notes

\* run() is blocked in inkey() after a key ('s') changed the state: the
\* notes of a later slide are on the terminal.
C9_Witness ==
    /\ pc = "inkey"
    /\ key.str = "s"
    /\ screen.notes_shown
    /\ screen.pos > 1

C12_NextThenPrevIsIdentity ==
    (0 < self.current_slide /\ self.current_slide < Len(self.slides) - 1) =>
        /\ next_slide(self).current_slide = self.current_slide + 1
        /\ prev_slide(next_slide(self)) = self

\* On an interior slide after a back arrow undid a move to the next slide
\* (the slide drawn before the key was the one after the current one).
C12_Witness ==
    /\ pc = "display"
    /\ key.name = "KEY_LEFT"
    /\ ~screen.help
    /\ screen.pos = self.current_slide + 2
    /\ 0 < self.current_slide
    /\ self.current_slide < Len(self.slides) - 1

\* C13: toggle_notes() twice gives back show_notes, and toggle_help() twice
\* gives back help_mode, from any state (nothing else changes either).
C13_TogglesAreInvolutions ==
    /\ toggle_notes(self).show_notes # self.show_notes
    /\ toggle_notes(toggle_notes(self)) = self
    /\ toggle_help(self).help_mode # self.help_mode
    /\ toggle_help(toggle_help(self)) = self

\* 's' switched the notes off again: they were on the terminal before the
\* key, so toggle_notes has acted twice.
C13_Witness ==
    /\ pc = "display"
    /\ key.str = "s"
    /\ screen.notes_shown
    /\ ~self.show_notes

\* C14 (as claimed): show_notes is false initially; in every redraw the
\* notes are displayed if and only if help_mode is false, show_notes is true
\* and the current slide has notes (notes is not None); in help mode the
\* redraw is the help layout, without slide content or notes.
C14_NotesShownIffPresent ==
    /\ pc = "start" => ~self.show_notes
    /\ pc = "inkey" =>
          LET slide == self.slides[self.current_slide + 1]
          IN  /\ screen.notes_shown <=>
                   (~self.help_mode /\ self.show_notes /\ slide.notes # None)
              /\ self.help_mode =>
                   (screen.help /\ screen.content = "" /\ screen.notes = None)

\* C14 (amended): as above, with "has notes" read as notes that are neither
\* None nor the empty string; the notes displayed are the slide's.
C14_NotesShownIffNonEmpty ==
    /\ pc = "start" => ~self.show_notes
    /\ pc = "inkey" =>
          LET slide == self.slides[self.current_slide + 1]
          IN  /\ screen.notes_shown <=>
                   (/\ ~self.help_mode
                    /\ self.show_notes
                    /\ slide.notes # None
                    /\ slide.notes # "")
              /\ screen.notes_shown => screen.notes = slide.notes
              /\ ~screen.notes_shown => screen.notes = None
              /\ self.help_mode =>
                   (screen.help /\ screen.content = "" /\ screen.notes = None)

\* A slide whose notes are the empty string was drawn with show_notes on:
\* no notes are on the terminal.
C14_Witness ==
    /\ pc = "inkey"
    /\ ~self.help_mode
    /\ self.show_notes
    /\ self.slides[self.current_slide + 1].notes = ""
    /\ ~screen.notes_shown
    /\ ~screen.help

----------------------------------------------------------------------------
(* Vocabulary of the parser's properties *)

\* The lines of s: the pieces between its line breaks.
RECURSIVE TextLines(_)
TextLines(s) ==
    LET nl == { j \in 1..Len(s) : s[j] = "\n" }
    IN  IF nl = {} THEN << s >>
        ELSE << SubSeq(s, 1, Min(nl) - 1) >>
             \o TextLines(SubSeq(s, Min(nl) + 1, Len(s)))

\* A line of optional whitespace around three or more hyphens.
IsSeparatorLine(l) ==
    LET t == { j \in 1..Len(l) : l[j] \notin WS }
    IN  /\ Cardinality(t) >= 3
        /\ \A j \in Min(t)..Max(t) : l[j] = "-"

HasSeparator(s) == \E i \in 1..Len(s) : separator_end(s, i) # 0

HasMarker(s) == \E i \in 1..(Len(s) - 1) : s[i] = "?" /\ s[i + 1] = ">"

\* sec (which has a marker) without its first marker-and-notes match.
RemoveFirstMatch(sec) ==
    LET i == Min(markers(sec, 1))
    IN  SubSeq(sec, 1, i - 1) \o SubSeq(sec, notes_match_end(sec, i), Len(sec))

\* sec with the first match removed again and again, until no marker is left.
RECURSIVE RemoveEveryMatch(_)
RemoveEveryMatch(sec) ==
    IF ~HasMarker(sec) THEN sec ELSE RemoveEveryMatch(RemoveFirstMatch(sec))

\* The text after the first marker and the whitespace that follows it, up
\* to the first blank line or the end, trimmed.
FirstNotes(sec) ==
    LET i == Min({ j \in 1..(Len(sec) - 1) : sec[j] = "?" /\ sec[j + 1] = ">" })
        p == Min({ j \in (i + 2)..Len(sec) : sec[j] \notin WS } \cup {Len(sec) + 1})
        q == Min({ j \in p..(Len(sec) - 1) : sec[j] = "\n" /\ sec[j + 1] = "\n" }
                 \cup {Len(sec) + 1})
    IN  strip(SubSeq(sec, p, q - 1))

\* The title as claimed: from the first line of sec that starts with '#'
\* followed by whitespace on that line, the rest trimmed; else the default.
ClaimedTitle(sec) ==
    LET ls == TextLines(sec)
        hs == { k \in 1..Len(ls) :
                  Len(ls[k]) >= 2 /\ ls[k][1] = "#" /\ ls[k][2] \in WS }
    IN  IF hs = {} THEN DefaultTitle
        ELSE strip(SubSeq(ls[Min(hs)], 2, Len(ls[Min(hs)])))

----------------------------------------------------------------------------
\* C15: parsing gives at least one slide; a text without separator gives
\* exactly one; there is one slide per raw section, in order, and a section
\* that is empty, or empty once its notes are removed and it is trimmed,
\* still gives a slide, with empty content.
C15_OneSlidePerSection ==
    ppc = "parsed" =>
        LET secs == re_split(text, 1)
        IN  /\ Len(doc.slides) >= 1
            /\ ~HasSeparator(text) => Len(doc.slides) = 1
            /\ Len(doc.slides) = Len(secs)
            /\ \A n \in 1..Len(secs) :
                  /\ ~HasMarker(secs[n]) =>
                        doc.slides[n].content = strip(secs[n])
                  /\ strip(RemoveEveryMatch(secs[n])) = <<>> =>
                        doc.slides[n].content = <<>>

\* Several sections, of which the first had only notes: its slide is
\* there, with empty content, before the next one.
C15_Witness ==
    /\ ppc = "parsed"
    /\ Len(doc.slides) >= 2
    /\ doc.slides[1].content = <<>>
    /\ doc.slides[1].notes # NoneStr
    /\ doc.slides[2].content # <<>>

\* C16: the text is split at exactly the separator lines (optional
\* whitespace around three or more hyphens, with a line before and a line
\* after): the slide count is 1 plus the number of such lines.
C16_SplitAtEverySeparatorLine ==
    ppc = "parsed" =>
        LET ls == TextLines(text)
        IN  Len(doc.slides) =
              1 + Cardinality({ k \in 2..(Len(ls) - 1) : IsSeparatorLine(ls[k]) })

\* C17: the title is the trimmed rest of the first line of the first
\* section that starts with '#' and whitespace on that line, else
\* "Presentation"; the heading stays in the first slide's content.
C17_TitleFromFirstHeadingTrimmed ==
    ppc = "parsed" =>
        LET first == re_split(text, 1)[1]
        IN  /\ doc.title = ClaimedTitle(first)
            /\ ~HasMarker(first) => doc.slides[1].content = strip(first)

\* C18 (as claimed): a section with a marker gives the notes of its first
\* match, and as content the trimmed section with exactly that one match
\* removed; a section without marker gives no notes and the trimmed section.
C18_OnlyFirstMatchRemoved ==
    ppc = "parsed" =>
        LET secs == re_split(text, 1)
        IN  \A n \in 1..Len(secs) :
               IF HasMarker(secs[n])
               THEN /\ doc.slides[n].notes = FirstNotes(secs[n])
                    /\ doc.slides[n].content = strip(RemoveFirstMatch(secs[n]))
               ELSE /\ doc.slides[n].notes = NoneStr
                    /\ doc.slides[n].content = strip(secs[n])

\* C18 (amended): as above, but the content is the trimmed section with
\* every match of the marker-and-notes pattern removed; the notes are those
\* of the first match.
C18_EveryMatchRemoved ==
    ppc = "parsed" =>
        LET secs == re_split(text, 1)
        IN  \A n \in 1..Len(secs) :
               IF HasMarker(secs[n])
               THEN /\ doc.slides[n].notes = FirstNotes(secs[n])
                    /\ doc.slides[n].content = strip(RemoveEveryMatch(secs[n]))
               ELSE /\ doc.slides[n].notes = NoneStr
                    /\ doc.slides[n].content = strip(secs[n])

\* A one-section text with two marker-and-notes matches and other text:
\* the notes are the first match's and some content is left.
C18_Witness ==
    /\ ppc = "parsed"
    /\ Len(doc.slides) = 1
    /\ HasMarker(text)
    /\ HasMarker(RemoveFirstMatch(text))
    /\ doc.slides[1].content # <<>>
    /\ doc.slides[1].notes # <<>>

\* C19 (as claimed): parsing a slide's content again as a document gives a
\* single slide, without notes, whose content is that content.
C19_ReparseIsSingleSlide ==
    ppc = "reparsed" =>
        /\ Len(redoc.slides) = 1
        /\ redoc.slides[1].notes = NoneStr
        /\ redoc.slides[1].content = text

\* C19 (amended): parsing a slide's content again gives no notes on any
\* slide and, when the content holds no separator, a single slide whose
\* content is that content.
C19_ReparseHasNoNotes ==
    ppc = "reparsed" =>
        /\ \A n \in 1..Len(redoc.slides) : redoc.slides[n].notes = NoneStr
        /\ ~HasSeparator(text) =>
              /\ Len(redoc.slides) = 1
              /\ redoc.slides[1].content = text

\* The content of a slide that had notes was parsed again: one slide, the
\* same content.
C19_Witness ==
    /\ ppc = "reparsed"
    /\ text # <<>>
    /\ \E n \in 1..Len(doc.slides) :
          doc.slides[n].content = text /\ doc.slides[n].notes # NoneStr
    /\ Len(redoc.slides) = 1
    /\ redoc.slides[1].content = text

\* C20: no slide's content holds the marker '?>', however many markers its
\* section held, and no slide's content starts or ends with whitespace.
C20_ContentHasNoMarkerAndIsTrimmed ==
    ppc = "parsed" =>
        \A n \in 1..Len(doc.slides) :
           LET c == doc.slides[n].content
           IN  /\ ~HasMarker(c)
               /\ c # <<>> => (c[1] \notin WS /\ c[Len(c)] \notin WS)

\* A text with markers in several paragraphs and whitespace at the end
\* was parsed, and content is left.
C20_Witness ==
    /\ ppc = "parsed"
    /\ Cardinality(markers(text, 1)) >= 2
    /\ text[Len(text)] \in WS
    /\ \E n \in 1..Len(doc.slides) :
          doc.slides[n].content # <<>> /\ doc.slides[n].notes # NoneStr

====
